---- MODULE Spec2Model ----
\* A model of vm_diskcheck.py: one run of main() over a fleet of VMs, with the
\* ssh transport (subprocess.run) as the environment.
\*
\* Text is modelled as follows.
\*   - a token of command output is a sequence of symbols; a symbol is a digit,
\*     one of "%", "+", "-", "_", or an opaque chunk of other characters;
\*   - a line of command output is a sequence of items, an item being a token or
\*     WS, a run of blanks; stdout is the sequence of its lines (the text between
\*     "\n" characters);
\*   - stderr and error messages are sequences of chunks, a chunk being a piece
\*     of text or the blank chunk " ".
\* A dict is a function whose DOMAIN is the set of keys that are present; None
\* is the value NONE.
EXTENDS Integers, Sequences, FiniteSets, TLC

VARIABLES pc, args, config, vms, results, outcomes, calls, stderrLog, stdoutText, summary, exitCode

vars == <<pc, args, config, vms, results, outcomes, calls, stderrLog, stdoutText, summary, exitCode>>

\* ---------------------------------------------------------------- bounds
MaxVms == 2
MaxLines == 3

\* ---------------------------------------------------------- python values
NONE == "<None>"
WS == <<" ">>
Digits == {"0", "1", "2", "3", "4", "5", "6", "7", "8", "9"}

\* dict.get(key, default)
Get(d, key, default) == IF key \in DOMAIN d THEN d[key] ELSE default

\* truth value of a string-or-None
Truthy(v) == v # NONE /\ v # ""

\* python's `a or b`
Or(a, b) == IF Truthy(a) THEN a ELSE b

DigitVal(c) ==
    CASE c = "0" -> 0 [] c = "1" -> 1 [] c = "2" -> 2 [] c = "3" -> 3 [] c = "4" -> 4
      [] c = "5" -> 5 [] c = "6" -> 6 [] c = "7" -> 7 [] c = "8" -> 8 [] c = "9" -> 9

\* ------------------------------------------------------------ str methods
RECURSIVE RStrip(_, _)
\* tok.rstrip(ch): every trailing ch goes
RStrip(tok, ch) ==
    IF Len(tok) > 0 /\ tok[Len(tok)] = ch THEN RStrip(SubSeq(tok, 1, Len(tok) - 1), ch) ELSE tok

\* the body of an int literal: digits, single underscores only between digits
IsDigitRun(s) ==
    /\ Len(s) > 0
    /\ s[1] \in Digits
    /\ s[Len(s)] \in Digits
    /\ \A i \in 1..Len(s) : s[i] \in Digits \/ (s[i] = "_" /\ s[i - 1] \in Digits /\ s[i + 1] \in Digits)

Unsigned(s) == IF Len(s) > 0 /\ s[1] \in {"+", "-"} THEN Tail(s) ELSE s

\* int(s) does not raise ValueError
IsInt(s) == IsDigitRun(Unsigned(s))

RECURSIVE DigitsValue(_, _)
DigitsValue(s, acc) ==
    IF s = <<>> THEN acc
    ELSE IF Head(s) = "_" THEN DigitsValue(Tail(s), acc)
    ELSE DigitsValue(Tail(s), 10 * acc + DigitVal(Head(s)))

\* int(s), for s with IsInt(s)
IntOf(s) == IF Len(s) > 0 /\ s[1] = "-" THEN 0 - DigitsValue(Tail(s), 0) ELSE DigitsValue(Unsigned(s), 0)

\* line.split(): the tokens of a line, blanks dropped
Split(line) == SelectSeq(line, LAMBDA item : item # WS)

RECURSIVE LStripChunks(_)
LStripChunks(s) == IF Len(s) > 0 /\ s[1] = " " THEN LStripChunks(Tail(s)) ELSE s

RECURSIVE RStripChunks(_)
RStripChunks(s) ==
    IF Len(s) > 0 /\ s[Len(s)] = " " THEN RStripChunks(SubSeq(s, 1, Len(s) - 1)) ELSE s

\* result.stderr.strip()
StripText(s) == RStripChunks(LStripChunks(s))

RECURSIVE LStripItems(_)
LStripItems(line) == IF Len(line) > 0 /\ line[1] = WS THEN LStripItems(Tail(line)) ELSE line

RECURSIVE RStripItems(_)
RStripItems(line) ==
    IF Len(line) > 0 /\ line[Len(line)] = WS THEN RStripItems(SubSeq(line, 1, Len(line) - 1)) ELSE line

RECURSIVE LStripLines(_)
\* leading blank characters go: whole blank lines, then the blanks that open the first line left
LStripLines(ls) ==
    IF ls = <<>> THEN <<>>
    ELSE IF LStripItems(Head(ls)) = <<>> THEN LStripLines(Tail(ls))
    ELSE <<LStripItems(Head(ls))>> \o Tail(ls)

RECURSIVE RStripLines(_)
RStripLines(ls) ==
    IF ls = <<>> THEN <<>>
    ELSE IF RStripItems(ls[Len(ls)]) = <<>> THEN RStripLines(SubSeq(ls, 1, Len(ls) - 1))
    ELSE SubSeq(ls, 1, Len(ls) - 1) \o <<RStripItems(ls[Len(ls)])>>

\* result.stdout.strip().split('\n'): the empty text splits into one empty line
StripSplitLines(stdout) ==
    LET ls == RStripLines(LStripLines(stdout))
    IN IF ls = <<>> THEN <<(<<>>)>> ELSE ls

\* ------------------------------------------------------ VMDiskChecker
DefaultPort == 22
DefaultThreshold == 80
CommandTimeout == 30

DiskCmd == "df -h | grep -E '^/dev/' | awk '{print $1,$2,$3,$4,$5,$6}'"

HostOf(vm) == Get(vm, "host", NONE)

\* name = vm.get('name', host)
NameOf(vm) == Get(vm, "name", HostOf(vm))

MissingHostNoneOnly(vm) == HostOf(vm) = NONE

\* if not host
MissingHost(vm) == ~Truthy(HostOf(vm))

MissingHostResult(vm) ==
    [name |-> Or(NameOf(vm), "Unknown"), host |-> "N/A", status |-> "error",
     error |-> <<"Missing required parameter: host">>]

\* the argument vector handed to subprocess.run
SshCmd(vm) ==
    <<"ssh", "-o", "StrictHostKeyChecking=no", "-o", "ConnectTimeout=10">>
    \o (IF Truthy(Get(vm, "ssh_key", "")) THEN <<"-i", vm["ssh_key"]>> ELSE <<>>)
    \o <<"-p", ToString(Get(vm, "port", DefaultPort)), Get(vm, "user", "root") \o "@" \o HostOf(vm)>>
    \o <<DiskCmd>>

ErrorTextRaw(stderr) == IF stderr # <<>> THEN stderr ELSE <<"Connection failed">>

\* result.stderr.strip() or 'Connection failed'
ErrorText(stderr) ==
    IF StripText(stderr) # <<>> THEN StripText(stderr) ELSE <<"Connection failed">>

ExceedsThresholdStrict(usage_percent, threshold) == usage_percent > threshold

\* usage_percent >= self.threshold
ExceedsThreshold(usage_percent, threshold) == usage_percent >= threshold

LastSix(parts) == SubSeq(parts, Len(parts) - 5, Len(parts))

\* the dict appended to disks for an accepted line
DiskEntry(parts, usage_percent, threshold) ==
    [device |-> parts[1], size |-> parts[2], used |-> parts[3], available |-> parts[4],
     usage_percent |-> usage_percent, mount |-> parts[6],
     warning |-> ExceedsThreshold(usage_percent, threshold)]

ParseWarning(line) == [stream |-> "stderr", text |-> "Warning: Failed to parse disk line: ", line |-> line]

\* one turn of the loop over the lines: what it appends to disks and what it prints
ParseLine(line, threshold) ==
    LET parts == Split(line)
    IN IF Len(line) = 0 \/ Len(parts) < 6 THEN [disks |-> <<>>, diags |-> <<>>]
       ELSE IF ~IsInt(RStrip(parts[5], "%")) THEN [disks |-> <<>>, diags |-> <<ParseWarning(line)>>]
       ELSE [disks |-> <<DiskEntry(IF Len(parts) > 6 THEN LastSix(parts) ELSE parts,
                                   IntOf(RStrip(parts[5], "%")), threshold)>>,
             diags |-> <<>>]

RECURSIVE ParseLinesStopAtBad(_, _)
ParseLinesStopAtBad(lines, threshold) ==
    IF lines = <<>> THEN [disks |-> <<>>, diags |-> <<>>]
    ELSE LET one == ParseLine(Head(lines), threshold)
             rest == IF one.disks = <<>> /\ Len(Head(lines)) > 0
                     THEN [disks |-> <<>>, diags |-> <<>>]
                     ELSE ParseLinesStopAtBad(Tail(lines), threshold)
         IN [disks |-> one.disks \o rest.disks, diags |-> one.diags \o rest.diags]

RECURSIVE ParseLines(_, _)
\* for line in ...: the loop carries on after a line it skips
ParseLines(lines, threshold) ==
    IF lines = <<>> THEN [disks |-> <<>>, diags |-> <<>>]
    ELSE LET one == ParseLine(Head(lines), threshold)
             rest == ParseLines(Tail(lines), threshold)
         IN [disks |-> one.disks \o rest.disks, diags |-> one.diags \o rest.diags]

ParseStdout(stdout, threshold) == ParseLines(StripSplitLines(stdout), threshold)

ErrorResult(vm, message) ==
    [name |-> NameOf(vm), host |-> HostOf(vm), status |-> "error", error |-> message]

SuccessResult(vm, disks) ==
    [name |-> NameOf(vm), host |-> HostOf(vm), status |-> "success", disks |-> disks]

\* the try block of check_vm_disk, given what subprocess.run did
ProbeResult(vm, threshold, outcome) ==
    CASE outcome.kind = "timeout" ->
           [result |-> ErrorResult(vm, <<"Connection timeout">>), diags |-> <<>>]
      [] outcome.kind = "exception" ->
           [result |-> ErrorResult(vm, outcome.text), diags |-> <<>>]
      [] outcome.kind = "completed" /\ outcome.returncode # 0 ->
           [result |-> ErrorResult(vm, ErrorText(outcome.stderr)), diags |-> <<>>]
      [] outcome.kind = "completed" /\ outcome.returncode = 0 ->
           [result |-> SuccessResult(vm, ParseStdout(outcome.stdout, threshold).disks),
            diags |-> ParseStdout(outcome.stdout, threshold).diags]

AppendUnlessError(rs, result) == IF result.status = "error" THEN rs ELSE Append(rs, result)

\* if result: results.append(result)
AppendResult(rs, result) == IF DOMAIN result # {} THEN Append(rs, result) ELSE rs

AnyWarning(disks) == \E i \in 1..Len(disks) : disks[i].warning

RECURSIVE CountErrors(_)
CountErrors(rs) ==
    IF rs = <<>> THEN 0
    ELSE (IF Head(rs).status = "error" THEN 1 ELSE 0) + CountErrors(Tail(rs))

RECURSIVE CountWarnings(_)
CountWarnings(rs) ==
    IF rs = <<>> THEN 0
    ELSE (IF Head(rs).status = "success" /\ AnyWarning(Head(rs).disks) THEN 1 ELSE 0)
         + CountWarnings(Tail(rs))

RECURSIVE CountWarningDisks(_)
CountWarningDisks(rs) ==
    IF rs = <<>> THEN 0
    ELSE (IF Head(rs).status = "success"
          THEN Cardinality({i \in 1..Len(Head(rs).disks) : Head(rs).disks[i].warning}) ELSE 0)
         + CountWarningDisks(Tail(rs))

GetSummaryPerDisk(rs) == [total |-> Len(rs), warnings |-> CountWarningDisks(rs), errors |-> CountErrors(rs)]

GetSummary(rs) == [total |-> Len(rs), warnings |-> CountWarnings(rs), errors |-> CountErrors(rs)]

ExitStatusWarningsFirst(s) == IF s.warnings > 0 THEN 1 ELSE IF s.errors > 0 THEN 2 ELSE 0

\* the sys.exit at the end of main
ExitStatus(s) == IF s.errors > 0 THEN 2 ELSE IF s.warnings > 0 THEN 1 ELSE 0

\* ------------------------------------------------------------- reports
RECURSIVE DiskBlocks(_)
DiskBlocks(disks) ==
    IF disks = <<>> THEN <<>>
    ELSE <<[line |-> "disk", marker |-> IF Head(disks).warning THEN "WARNING" ELSE "OK",
            mount |-> Head(disks).mount, device |-> Head(disks).device, size |-> Head(disks).size,
            used |-> Head(disks).used, available |-> Head(disks).available,
            usage |-> Head(disks).usage_percent]>>
         \o DiskBlocks(Tail(disks))

RECURSIVE VmBlocks(_)
VmBlocks(rs) ==
    IF rs = <<>> THEN <<>>
    ELSE <<[line |-> "vm", name |-> Head(rs).name, host |-> Head(rs).host]>>
         \o (IF Head(rs).status = "error"
             THEN <<[line |-> "error", error |-> Head(rs).error]>>
             ELSE DiskBlocks(Head(rs).disks))
         \o <<[line |-> "blank"]>>
         \o VmBlocks(Tail(rs))

FormatOutputText(rs) ==
    [format |-> "text",
     lines |-> <<[line |-> "banner", text |-> "VM Disk Space Check Results"], [line |-> "blank"]>>
               \o VmBlocks(rs)]

\* json.dumps(results): the document is the list of result dicts
FormatOutputJson(rs) == [format |-> "json", document |-> rs]

\* ------------------------------------------------------- sampled inputs
Tok(text) == <<text>>
Pct(d1, d2) == <<d1, d2, "%">>

RECURSIVE Spaced(_)
\* a line written with one run of blanks between its tokens
Spaced(parts) ==
    IF Len(parts) <= 1 THEN parts ELSE <<Head(parts), WS>> \o Spaced(Tail(parts))

Line47 == Spaced(<<Tok("/dev/sda1"), Tok("100G"), Tok("45G"), Tok("50G"), Pct("4", "7"), Tok("/")>>)
Line89 == Spaced(<<Tok("/dev/sda2"), Tok("50G"), Tok("42G"), Tok("5G"), Pct("8", "9"), Tok("/var")>>)
Line80 == Spaced(<<Tok("/dev/sdb1"), Tok("10G"), Tok("8G"), Tok("2G"), Pct("8", "0"), Tok("/data")>>)
Line79 == Spaced(<<Tok("/dev/sdb2"), Tok("10G"), Tok("7.9G"), Tok("2.1G"), Pct("7", "9"), Tok("/opt")>>)
Line100 == Spaced(<<Tok("/dev/sdb3"), Tok("1G"), Tok("1G"), Tok("0"), <<"1", "0", "0", "%">>, Tok("/boot")>>)
LineShort == Spaced(<<Tok("/dev/sdc1"), Tok("100G"), Tok("45G")>>)
LineDash == Spaced(<<Tok("/dev/sdd1"), Tok("0"), Tok("0"), Tok("0"), <<"-">>, Tok("/snap")>>)
LineLabelled == Spaced(<<Tok("LABEL"), Tok("/dev/sde1"), Tok("20G"), Tok("1G"), Tok("19G"), Pct("0", "5"), Tok("/srv")>>)
LineSpaceMount == Spaced(<<Tok("/dev/sdf1"), Tok("20G"), Tok("19G"), Tok("1G"), Pct("9", "5"), Tok("/mnt/my"), Tok("disk")>>)
LineTwoPct == Spaced(<<Tok("LABEL"), Tok("/dev/sdg1"), Tok("9G"), Tok("1G"), Pct("1", "2"), Pct("9", "0"), Tok("/z")>>)
LineBlank == <<WS>>
LineEmpty == <<>>

LineSamples ==
    {Line47, Line89, Line80, Line79, Line100, LineShort, LineDash, LineLabelled, LineSpaceMount,
     LineTwoPct, LineBlank, LineEmpty}

SeqsUpTo(S, n) == UNION {[1..k -> S] : k \in 0..n}

Completed(returncode, stdout, stderr) ==
    [kind |-> "completed", returncode |-> returncode, stdout |-> stdout, stderr |-> stderr]

FailedOutcomes ==
    {Completed(255, <<>>, <<"ssh: connect to host h1 port 22: Connection refused", " ">>),
     Completed(1, <<Line89>>, <<" ">>),
     [kind |-> "timeout"],
     [kind |-> "exception", text |-> <<"[Errno 2] No such file or directory: 'ssh'">>]}

\* what subprocess.run may do in a run over the fleet
Outcomes ==
    {Completed(0, <<>>, <<>>),
     Completed(0, <<Line47, LineEmpty>>, <<>>),
     Completed(0, <<Line47, LineShort, Line89, LineEmpty>>, <<>>)}
    \cup FailedOutcomes

\* what subprocess.run may print on a host that answers
ParseOutcomes == {Completed(0, stdout, <<>>) : stdout \in SeqsUpTo(LineSamples, MaxLines)}

VmSamples ==
    {[name |-> "web", host |-> "h1"],
     [host |-> "h2"],
     [name |-> "", host |-> "h1"],
     [name |-> NONE, host |-> "h2", user |-> "admin", port |-> 2222, ssh_key |-> "~/.ssh/id_rsa"],
     [name |-> "db"],
     [host |-> ""],
     [user |-> "ops"]}

ConfigSamples ==
    {[file |-> "missing"], [file |-> "malformed"], [file |-> "ok", document |-> [version |-> "1"]]}
    \cup {[file |-> "ok", document |-> [vms |-> v]] : v \in SeqsUpTo(VmSamples, MaxVms)}

ThresholdSamples == {0, 1, DefaultThreshold, 101}

ArgSamples == [config : {"vms.yml"}, threshold : ThresholdSamples, format : {"text", "json"}]

NoSummary == [total |-> -1, warnings |-> -1, errors |-> -1]
Running == -1

\* ---------------------------------------------------------------- main
Init ==
    /\ pc = "validate"
    /\ args \in ArgSamples
    /\ config \in ConfigSamples
    /\ vms = <<>>
    /\ results = <<>>
    /\ outcomes = <<>>
    /\ calls = <<>>
    /\ stderrLog = <<>>
    /\ stdoutText = [format |-> "none"]
    /\ summary = NoSummary
    /\ exitCode = Running

Fatal(message) ==
    /\ stderrLog' = Append(stderrLog, [stream |-> "stderr", text |-> message])
    /\ exitCode' = 1
    /\ pc' = "exited"

\* if not 0 < args.threshold <= 100
ValidateThreshold ==
    /\ pc = "validate"
    /\ IF ~(0 < args.threshold /\ args.threshold <= 100)
       THEN Fatal("Error: Threshold must be between 1 and 100")
       ELSE pc' = "load" /\ UNCHANGED <<stderrLog, exitCode>>
    /\ UNCHANGED <<args, config, vms, results, outcomes, calls, stdoutText, summary>>

\* VMDiskChecker.__init__ and _load_config
LoadConfig ==
    /\ pc = "load"
    /\ CASE config.file = "missing" ->
              Fatal("Error: Configuration file not found.") /\ UNCHANGED vms
         [] config.file = "malformed" ->
              Fatal("Error parsing YAML configuration") /\ UNCHANGED vms
         [] config.file = "ok" ->
              /\ vms' = Get(config.document, "vms", <<>>)
              /\ pc' = "probe"
              /\ UNCHANGED <<stderrLog, exitCode>>
    /\ UNCHANGED <<args, config, results, outcomes, calls, stdoutText, summary>>

NoCall == [kind |-> "not called"]

\* one turn of the loop of check_all_vms: check_vm_disk on the next VM, the
\* transport answering with one of `answers`. outcomes[i] records what the
\* transport did for vms[i], so Len(outcomes) is the number of VMs checked.
CheckNext(answers) ==
    /\ pc = "probe"
    /\ Len(outcomes) < Len(vms)
    /\ LET vm == vms[Len(outcomes) + 1]
       IN IF MissingHost(vm)
          THEN /\ results' = AppendResult(results, MissingHostResult(vm))
               /\ outcomes' = Append(outcomes, NoCall)
               /\ UNCHANGED <<calls, stderrLog>>
          ELSE \E outcome \in answers :
                 /\ calls' = Append(calls, [cmd |-> SshCmd(vm), timeout |-> CommandTimeout])
                 /\ outcomes' = Append(outcomes, outcome)
                 /\ results' = AppendResult(results, ProbeResult(vm, args.threshold, outcome).result)
                 /\ stderrLog' = stderrLog \o ProbeResult(vm, args.threshold, outcome).diags
    /\ UNCHANGED <<pc, args, config, vms, stdoutText, summary, exitCode>>

CheckVm == CheckNext(Outcomes)

\* the rest of main: the report, the summary and the exit status
Report ==
    /\ pc = "probe"
    /\ Len(outcomes) = Len(vms)
    /\ stdoutText' = IF args.format = "json" THEN FormatOutputJson(results) ELSE FormatOutputText(results)
    /\ summary' = GetSummary(results)
    /\ exitCode' = ExitStatus(GetSummary(results))
    /\ pc' = "exited"
    /\ UNCHANGED <<args, config, vms, results, outcomes, calls, stderrLog>>

Next == ValidateThreshold \/ LoadConfig \/ CheckVm \/ Report

Spec == Init /\ [][Next]_vars

\* ------------------------------------------- check_vm_disk on one host
ParseThresholds == {1, DefaultThreshold, 100}

InitParse ==
    /\ pc = "probe"
    /\ args \in [config : {"vms.yml"}, threshold : ParseThresholds, format : {"text"}]
    /\ config = [file |-> "ok", document |-> [vms |-> <<[name |-> "web", host |-> "h1"]>>]]
    /\ vms = <<[name |-> "web", host |-> "h1"]>>
    /\ results = <<>>
    /\ outcomes = <<>>
    /\ calls = <<>>
    /\ stderrLog = <<>>
    /\ stdoutText = [format |-> "none"]
    /\ summary = NoSummary
    /\ exitCode = Running

CheckVmOutput == CheckNext(ParseOutcomes)

NextParse == CheckVmOutput \/ Report

ParseSpec == InitParse /\ [][NextParse]_vars

\* ================================================================ claims
Failed(r) == r.status = "error"
Flagged(r) == r.status = "success" /\ \E j \in 1..Len(r.disks) : r.disks[j].warning
Reported == pc = "exited" /\ stdoutText.format # "none"
HostAbsent(vm) == "host" \notin DOMAIN vm \/ vm["host"] \in {NONE, ""}
NameAbsent(vm) == "name" \notin DOMAIN vm \/ vm["name"] \in {NONE, ""}
Checked == 1..Len(outcomes)

\* C1: a run that probed the hosts exits 2 when some host result is a Failure,
\* else 1 when some Success holds a flagged filesystem, else 0, whatever the
\* output format.
C1_ExitCode ==
    Reported =>
        exitCode = IF \E i \in 1..Len(results) : Failed(results[i]) THEN 2
                   ELSE IF \E i \in 1..Len(results) : Flagged(results[i]) THEN 1
                   ELSE 0

\* a failed host next to a host with a flagged filesystem, reported as json: exit 2
C1_Witness ==
    /\ Reported
    /\ args.format = "json"
    /\ exitCode = 2
    /\ \E i \in 1..Len(results) : Flagged(results[i])

StderrTrimmedTo(stderr, message) ==
    \E a \in 0..Len(stderr) : \E b \in 0..(Len(stderr) - a) :
        /\ message = SubSeq(stderr, a + 1, Len(stderr) - b)
        /\ \A k \in 1..a : stderr[k] = " "
        /\ \A k \in (Len(stderr) - b + 1)..Len(stderr) : stderr[k] = " "
        /\ message # <<>>
        /\ message[1] # " "
        /\ message[Len(message)] # " "

TokenLines(stdout) == SelectSeq(stdout, LAMBDA line : Split(line) # <<>>)

\* the usage field is an integer with '%' signs after it, or a bare integer
IntegerUsage(tok) == IsInt(RStrip(tok, "%"))

CanonicalSix(line) == SubSeq(Split(line), Len(Split(line)) - 5, Len(Split(line)))

ClaimedAccepted(line) == Len(Split(line)) >= 6 /\ IntegerUsage(CanonicalSix(line)[5])

ClaimedEntry(line, threshold) ==
    [device |-> CanonicalSix(line)[1], size |-> CanonicalSix(line)[2],
     used |-> CanonicalSix(line)[3], available |-> CanonicalSix(line)[4],
     usage_percent |-> IntOf(RStrip(CanonicalSix(line)[5], "%")),
     mount |-> CanonicalSix(line)[6],
     warning |-> IntOf(RStrip(CanonicalSix(line)[5], "%")) >= threshold]

\* C5: a line of more than 6 tokens is read through its last 6 tokens: it is
\* accepted whenever the 5th of them is an integer followed by '%', and every
\* field of its entry, usage_percent and the flag included, comes from them.
C5_LastSixCanonical ==
    \A i \in Checked : (outcomes[i].kind = "completed" /\ outcomes[i].returncode = 0) =>
        LET claimed == SelectSeq(TokenLines(outcomes[i].stdout), ClaimedAccepted)
        IN /\ Len(results[i].disks) = Len(claimed)
           /\ \A j \in 1..Len(claimed) : results[i].disks[j] = ClaimedEntry(claimed[j], args.threshold)

\* C6: every result carries a non-empty name: the record's name when it has
\* one, otherwise the host, or "Unknown" when the host is missing too.
C6_NonEmptyName ==
    \A i \in 1..Len(results) :
        /\ results[i].name \notin {NONE, ""}
        /\ results[i].name = IF ~NameAbsent(vms[i]) THEN vms[i]["name"]
                             ELSE IF ~HostAbsent(vms[i]) THEN vms[i]["host"]
                             ELSE "Unknown"

\* a line is accepted when it has at least 6 tokens and its usage field, the
\* 5th token, is an integer
AcceptedLine(line) == Len(Split(line)) >= 6 /\ IntegerUsage(Split(line)[5])

C8_InclusiveThreshold ==
    \A i \in 1..Len(results) : results[i].status = "success" =>
        \A j \in 1..Len(results[i].disks) :
            results[i].disks[j].warning <=> (results[i].disks[j].usage_percent >= args.threshold)

\* an entry at the threshold, flagged, and one just below it, not flagged
C8_Witness ==
    \E i \in 1..Len(results) :
        /\ results[i].status = "success"
        /\ \E j \in 1..Len(results[i].disks) :
             results[i].disks[j].usage_percent = args.threshold /\ results[i].disks[j].warning
        /\ \E j \in 1..Len(results[i].disks) :
             results[i].disks[j].usage_percent = args.threshold - 1 /\ ~results[i].disks[j].warning

\* C9: get_summary gives the number of results, the number of Success results
\* with a flagged filesystem and the number of Failure results; no result
\* counts twice, so warnings + errors <= total.
C9_Summary ==
    Reported =>
        /\ summary.total = Len(results)
        /\ summary.errors = Cardinality({i \in 1..Len(results) : Failed(results[i])})
        /\ summary.warnings = Cardinality({i \in 1..Len(results) : Flagged(results[i])})
        /\ summary.warnings + summary.errors <= summary.total

\* a host with two flagged filesystems next to a host with none
C9_Witness ==
    /\ Reported
    /\ summary = [total |-> 2, warnings |-> 1, errors |-> 0]
    /\ \E i \in 1..2 : Cardinality({j \in 1..Len(results[i].disks) : results[i].disks[j].warning}) = 2

\* C10: each line of a successful host's output that holds text and is not
\* accepted gets exactly one parse-skip diagnostic on standard error, and an
\* accepted line gets none.
C10_SkipDiagnostics ==
    \A i \in Checked :
        (Len(vms) = 1 /\ outcomes[i].kind = "completed" /\ outcomes[i].returncode = 0) =>
            /\ Len(stderrLog) = Len(SelectSeq(TokenLines(outcomes[i].stdout), LAMBDA line : ~AcceptedLine(line)))
            /\ \A k \in 1..Len(stderrLog) : ~AcceptedLine(stderrLog[k].line)

====
